---- MODULE Spec2Model ----
(***************************************************************************)
(* A model of monodromy's polytope algebra (monodromy/polytopes.py) and of *)
(* the backward path search (monodromy/xx_decompose/paths.py).             *)
(*                                                                         *)
(* Geometry.  Convex regions are axis-parallel boxes of the plane with     *)
(* integer corners in [0, GridX] x [0, GridY]; a box is written as the     *)
(* list of inequalities  c0 + c1*x + c2*y >= 0  that ConvexPolytope keeps, *)
(* so that intersect is the list concatenation of the source.  An equality *)
(* is written as its two opposite inequalities.  Lengths are counted in    *)
(* grid steps: with a step of 1/2 along x and 1 along y the box            *)
(* [0,2]x[0,1] is the unit square and volumes are counted in half units.   *)
(***************************************************************************)
EXTENDS Integers, Sequences, FiniteSets, TLC

VARIABLES
    \* PolytopeVolume arithmetic: the operands, the operator applied, the result
    pv_a, pv_b, pv_op, pv_out,
    \* Polytope.volume: the component list of a Polytope and the value read
    convex_subpolytopes, volume_pc, volume_out,
    \* contains: the two regions, the method called, its answer
    ct_self, ct_other, ct_op, ct_out,
    \* trim_polytope_set: its two arguments, its result, and the result of
    \* calling it again on that result
    trimmable_polytopes, fixed_polytopes, trim_pc, trim_out, trim_again,
    \* memoization: two Polytope objects, the method called on the first, the
    \* object it returned, and the values read from that object
    poly_self, poly_other, cache_op, poly_clone, seen_volume, seen_vertices,
    \* decompose: its three arguments (requested is the target as passed), its
    \* locals, the entry each hop was taken from, where it stands, its result
    coverage_set, scipy_coverage_set, requested,
    target, working_polytope, operations_remaining, decomposition,
    ancestors, pc, result

arithVars == <<pv_a, pv_b, pv_op, pv_out>>
volumeVars == <<convex_subpolytopes, volume_pc, volume_out>>
containsVars == <<ct_self, ct_other, ct_op, ct_out>>
trimVars == <<trimmable_polytopes, fixed_polytopes, trim_pc, trim_out, trim_again>>
cacheVars == <<poly_self, poly_other, cache_op, poly_clone, seen_volume, seen_vertices>>
pathVars == <<coverage_set, scipy_coverage_set, requested, target, working_polytope,
              operations_remaining, decomposition, ancestors, pc, result>>
vars == <<arithVars, volumeVars, containsVars, trimVars, cacheVars, pathVars>>

(***************************************************************************)
(* Bounds of the model.                                                    *)
(***************************************************************************)
GridX == 3
GridY == 1
TrimGridX == 4
SmallGridX == 2
MaxCandidates == 3
MaxMixedCandidates == 2
MaxParts == 2
MaxPoint == 2
MaxOperation == 2
MaxOperations == 2
MaxCost == 2
MaxEntries == 3
MaxComponents == 3
MaxDimension == 2
MaxMagnitude == 2

\* Values standing for Python's None and for a raised exception.
None == [dimension |-> -1, volume |-> 0]
ValueError == [dimension |-> -2, volume |-> 0]
Idle == "idle"

Max(S) == CHOOSE m \in S : \A k \in S : k <= m
Min(S) == CHOOSE m \in S : \A k \in S : m <= k

RECURSIVE Pow2(_)
Pow2(k) == IF k = 0 THEN 1 ELSE 2 * Pow2(k - 1)

\* Python's & and ^ on non-negative integers.
RECURSIVE BitAnd(_, _)
BitAnd(a, b) ==
    IF a = 0 \/ b = 0 THEN 0
    ELSE (a % 2) * (b % 2) + 2 * BitAnd(a \div 2, b \div 2)

RECURSIVE BitXor(_, _)
BitXor(a, b) ==
    IF a = 0 THEN b
    ELSE IF b = 0 THEN a
    ELSE ((a + b) % 2) + 2 * BitXor(a \div 2, b \div 2)

RECURSIVE BitCount(_)
BitCount(a) == IF a = 0 THEN 0 ELSE (a % 2) + BitCount(a \div 2)

\* The elements of a finite set of integers in increasing order.
RECURSIVE Ascending(_)
Ascending(S) ==
    IF S = {} THEN <<>> ELSE <<Min(S)>> \o Ascending(S \ {Min(S)})

\* The sequences over S of length at most n.
SeqsUpTo(S, n) == UNION {[1..k -> S] : k \in 0..n}

\* bit_iteration(length, weight): the bit patterns of `length` bits with
\* `weight` bits set.
bit_iteration(length, weight) ==
    Ascending({b \in 0..(Pow2(length) - 1) : BitCount(b) = weight})

(***************************************************************************)
(* PolytopeVolume                                                          *)
(***************************************************************************)
PolytopeVolume(dimension, volume) == [dimension |-> dimension, volume |-> volume]

\* PolytopeVolume.__add__; an exception raised earlier propagates.
Add(self, other) ==
    IF self = ValueError \/ other = ValueError THEN ValueError
    ELSE IF self.dimension > other.dimension THEN self
    ELSE IF self.dimension < other.dimension THEN other
    ELSE PolytopeVolume(self.dimension, self.volume + other.volume)

\* PolytopeVolume.__sub__
SubWrong(self, other) ==
    IF self = ValueError \/ other = ValueError THEN ValueError
    ELSE IF self.dimension > other.dimension THEN self
    ELSE IF self.dimension = other.dimension
         THEN PolytopeVolume(self.dimension, self.volume - other.volume)
    ELSE other

Sub(self, other) ==
    IF self = ValueError \/ other = ValueError THEN ValueError
    ELSE IF self.dimension > other.dimension THEN self
    ELSE IF self.dimension = other.dimension
         THEN PolytopeVolume(self.dimension, self.volume - other.volume)
    ELSE ValueError

(***************************************************************************)
(* ConvexPolytope and the geometry backend                                 *)
(***************************************************************************)
ConvexPolytope(inequalities) == [inequalities |-> inequalities]

\* The box [x1,x2] x [y1,y2] and the empty region, as inequality lists.
Box(x1, x2, y1, y2) ==
    ConvexPolytope(<< <<-x1, 1, 0>>, <<x2, -1, 0>>, <<-y1, 0, 1>>, <<y2, 0, -1>> >>)
EmptyRegion == ConvexPolytope(<< <<-1, 0, 0>> >>)

\* The regions the model draws its inputs from: every box of the grid (flat
\* ones and single points included) and the empty region.
ShapesOn(gx, gy) ==
    {Box(b[1], b[2], b[3], b[4]) :
        b \in {c \in (0..gx) \X (0..gx) \X (0..gy) \X (0..gy) :
                  c[1] <= c[2] /\ c[3] <= c[4]}}
    \cup {EmptyRegion}

Shapes == ShapesOn(GridX, GridY)

\* Every region of the model lies in [0, WorldX] x [0, GridY].
WorldX == Max({GridX, TrimGridX, SmallGridX})

\* The geometry backend reads the region off the inequalities.
Ineqs(cp) == {cp.inequalities[k] : k \in 1..Len(cp.inequalities)}
XLo(cp) == Max({0} \cup {-q[1] : q \in {r \in Ineqs(cp) : r[2] = 1}})
XHi(cp) == Min({WorldX} \cup {q[1] : q \in {r \in Ineqs(cp) : r[2] = -1}})
YLo(cp) == Max({0} \cup {-q[1] : q \in {r \in Ineqs(cp) : r[3] = 1}})
YHi(cp) == Min({GridY} \cup {q[1] : q \in {r \in Ineqs(cp) : r[3] = -1}})
Feasible(cp) ==
    /\ \A q \in Ineqs(cp) : (q[2] = 0 /\ q[3] = 0) => q[1] >= 0
    /\ XLo(cp) <= XHi(cp)
    /\ YLo(cp) <= YHi(cp)

\* backend.volume: the measure of the region in the dimension of its affine hull.
BackendVolume(cp) ==
    LET w == XHi(cp) - XLo(cp)
        h == YHi(cp) - YLo(cp)
    IN PolytopeVolume((IF w > 0 THEN 1 ELSE 0) + (IF h > 0 THEN 1 ELSE 0),
                      (IF w > 0 THEN w ELSE 1) * (IF h > 0 THEN h ELSE 1))

\* backend.vertices: the extremal points of the region.
BackendVertices(cp) ==
    {<<x, y>> : x \in {XLo(cp), XHi(cp)}, y \in {YLo(cp), YHi(cp)}}

\* ConvexPolytope.volume
ConvexVolume(cp) ==
    IF Feasible(cp) THEN BackendVolume(cp) ELSE PolytopeVolume(0, 0)

\* ConvexPolytope.vertices
ConvexVertices(cp) ==
    IF Feasible(cp) THEN BackendVertices(cp) ELSE {}

\* ConvexPolytope.intersect
ConvexIntersect(self, other) ==
    ConvexPolytope(self.inequalities \o other.inequalities)

(***************************************************************************)
(* Polytope.volume                                                         *)
(***************************************************************************)
\* volume = volume -/+ v at weight 1 + d
Balance(volume, d, v) ==
    IF d % 2 = 1 THEN Sub(volume, v) ELSE Add(volume, v)

\* The intersection of the components selected by bitstring.
RECURSIVE IntersectionFrom(_, _, _)
IntersectionFrom(cs, bitstring, index) ==
    IF index > Len(cs) THEN <<>>
    ELSE (IF BitAnd(bitstring, Pow2(index - 1)) # 0
          THEN cs[index].inequalities ELSE <<>>)
         \o IntersectionFrom(cs, bitstring, index + 1)

Intersection(cs, bitstring) == ConvexPolytope(IntersectionFrom(cs, bitstring, 1))

Skipped(skip_masks, bitstring) ==
    \E mask \in skip_masks : BitAnd(mask, bitstring) = mask

\* One turn of the first inner loop (lines 148-177).
VisitWrong(cs, top_dimension, d, st, bitstring) ==
    IF Skipped(st.skip_masks, bitstring) THEN st
    ELSE
    LET v == ConvexVolume(Intersection(cs, bitstring))
        pv == [st.previous_volumes EXCEPT ![bitstring] = v]
        sk == IF v.dimension < top_dimension
              THEN st.skip_masks \cup {bitstring} ELSE st.skip_masks
        parents == {p \in 0..(Len(cs) - 1) :
                       /\ BitAnd(Pow2(p), bitstring) # 0
                       /\ BitXor(bitstring, Pow2(p)) \notin sk
                       /\ v = pv[BitXor(bitstring, Pow2(p))]}
    IN IF parents = {}
       THEN [volume |-> st.volume, skip_masks |-> sk, previous_volumes |-> pv]
       ELSE [volume |-> st.volume,
             skip_masks |-> sk \cup {BitXor(bitstring, Pow2(Min(parents)))},
             previous_volumes |-> pv]

Visit(cs, top_dimension, d, st, bitstring) ==
    IF Skipped(st.skip_masks, bitstring) THEN st
    ELSE
    LET v == ConvexVolume(Intersection(cs, bitstring))
        pv == [st.previous_volumes EXCEPT ![bitstring] = v]
        sk == IF v.dimension < top_dimension
              THEN st.skip_masks \cup {bitstring} ELSE st.skip_masks
        parents == {p \in 0..(Len(cs) - 1) :
                       /\ BitAnd(Pow2(p), bitstring) # 0
                       /\ BitXor(bitstring, Pow2(p)) \notin sk
                       /\ v = pv[BitXor(bitstring, Pow2(p))]}
    IN IF parents = {}
       THEN [volume |-> st.volume, skip_masks |-> sk, previous_volumes |-> pv]
       ELSE [volume |-> Balance(st.volume, d, v),
             skip_masks |-> sk \cup {BitXor(bitstring, Pow2(Min(parents)))},
             previous_volumes |-> pv]

RECURSIVE VisitAll(_, _, _, _, _, _)
VisitAll(cs, top_dimension, d, st, patterns, k) ==
    IF k > Len(patterns) THEN st
    ELSE VisitAll(cs, top_dimension, d,
                  Visit(cs, top_dimension, d, st, patterns[k]), patterns, k + 1)

\* The second inner loop (lines 180-187): sum the signed volumes at this weight.
RECURSIVE SumAll(_, _, _, _)
SumAll(d, st, patterns, k) ==
    IF k > Len(patterns) THEN st
    ELSE LET bitstring == patterns[k] IN
         IF st.previous_volumes[bitstring] = None
               \/ Skipped(st.skip_masks, bitstring)
         THEN SumAll(d, st, patterns, k + 1)
         ELSE SumAll(d,
                     [st EXCEPT !.volume =
                          Balance(st.volume, d, st.previous_volumes[bitstring])],
                     patterns, k + 1)

RECURSIVE Weights(_, _, _, _)
Weights(cs, top_dimension, d, st) ==
    IF d >= Len(cs) THEN st
    ELSE LET patterns == bit_iteration(Len(cs), 1 + d) IN
         Weights(cs, top_dimension, d + 1,
                 SumAll(d, VisitAll(cs, top_dimension, d, st, patterns, 1),
                        patterns, 1))

TopDimension(cs) ==
    Max({0} \cup {ConvexVolume(cs[k]).dimension : k \in 1..Len(cs)})

\* Polytope.volume of the Polytope with components cs.
Volume(cs) ==
    Weights(cs, TopDimension(cs), 0,
            [volume |-> PolytopeVolume(0, 0),
             skip_masks |-> {},
             previous_volumes |-> [b \in 0..(Pow2(Len(cs)) - 1) |-> None]]).volume

(***************************************************************************)
(* Reference values for the volume of a union                              *)
(***************************************************************************)
\* The unpruned alternating sum over all non-empty subsets of components.
RECURSIVE FullSum(_, _, _, _)
FullSum(cs, volume, patterns, k) ==
    IF k > Len(patterns) THEN volume
    ELSE FullSum(cs,
                 Balance(volume, BitCount(patterns[k]) - 1,
                         ConvexVolume(Intersection(cs, patterns[k]))),
                 patterns, k + 1)

RECURSIVE FullWeights(_, _, _)
FullWeights(cs, d, volume) ==
    IF d >= Len(cs) THEN volume
    ELSE FullWeights(cs, d + 1,
                     FullSum(cs, volume, bit_iteration(Len(cs), 1 + d), 1))

FullInclusionExclusion(cs) == FullWeights(cs, 0, PolytopeVolume(0, 0))

\* The measure of the union, counted directly on the grid: the unit cells
\* (dimension 2), unit edges (dimension 1) or grid points (dimension 0) that
\* some component covers.
Covers(cp, x1, x2, y1, y2) ==
    /\ Feasible(cp)
    /\ XLo(cp) <= x1 /\ x2 <= XHi(cp)
    /\ YLo(cp) <= y1 /\ y2 <= YHi(cp)

Pieces(dimension) ==
    IF dimension = 2
    THEN {<<x, x + 1, y, y + 1>> : x \in 0..(WorldX - 1), y \in 0..(GridY - 1)}
    ELSE IF dimension = 1
    THEN {<<x, x + 1, y, y>> : x \in 0..(WorldX - 1), y \in 0..GridY}
         \cup {<<x, x, y, y + 1>> : x \in 0..WorldX, y \in 0..(GridY - 1)}
    ELSE {<<x, x, y, y>> : x \in 0..WorldX, y \in 0..GridY}

UnionMeasure(cs) ==
    PolytopeVolume(
        TopDimension(cs),
        Cardinality({p \in Pieces(TopDimension(cs)) :
                        \E k \in 1..Len(cs) : Covers(cs[k], p[1], p[2], p[3], p[4])}))

(***************************************************************************)
(* Polytope: a list of convex components                                   *)
(***************************************************************************)
\* Polytope.vertices
Vertices(cs) == [k \in 1..Len(cs) |-> ConvexVertices(cs[k])]

\* Polytope.union: the clone's component list
Union(self, other) == self \o other

\* Polytope.intersect: the clone's component list, left-major
RECURSIVE Distribute(_, _, _, _)
Distribute(self, other, i, j) ==
    IF i > Len(self) THEN <<>>
    ELSE IF j > Len(other) THEN Distribute(self, other, i + 1, 1)
    ELSE <<ConvexIntersect(self[i], other[j])>> \o Distribute(self, other, i, j + 1)

Intersect(self, other) == Distribute(self, other, 1, 1)

\* ConvexPolytope.contains
ConvexContainsWrong(self, other) ==
    ConvexVertices(self) \subseteq ConvexVertices(ConvexIntersect(other, self))

ConvexContains(self, other) ==
    ConvexVertices(other) \subseteq ConvexVertices(ConvexIntersect(other, self))

\* Polytope.contains
Contains(self, other) ==
    LET intersection == Intersect(other, self)
        little_vertices == Vertices(other)
        cap_vertices == Vertices(intersection)
    IN IF \E k \in 1..Len(little_vertices) : \E vertex \in little_vertices[k] :
             ~\E j \in 1..Len(cap_vertices) : vertex \in cap_vertices[j]
       THEN FALSE
       ELSE Volume(intersection) = Volume(other)

(***************************************************************************)
(* trim_polytope_set                                                       *)
(***************************************************************************)
\* The order of PolytopeVolume (dataclass(order=True)): dimension, then volume.
VolumeLess(a, b) ==
    \/ a.dimension < b.dimension
    \/ a.dimension = b.dimension /\ a.volume < b.volume

\* sorted(..., key=volume, reverse=True): stable, largest volume first.
RECURSIVE InsertByVolume(_, _, _)
InsertByVolume(sorted, polytope, k) ==
    IF k > Len(sorted) THEN Append(sorted, polytope)
    ELSE IF VolumeLess(Volume(sorted[k]), Volume(polytope))
    THEN SubSeq(sorted, 1, k - 1) \o <<polytope>> \o SubSeq(sorted, k, Len(sorted))
    ELSE InsertByVolume(sorted, polytope, k + 1)

RECURSIVE SortedByVolume(_, _)
SortedByVolume(polytopes, n) ==
    IF n = 0 THEN <<>>
    ELSE InsertByVolume(SortedByVolume(polytopes, n - 1), polytopes[n], 1)

\* The union of a list of polytopes, folded from the empty Polytope.
RECURSIVE UnionAll(_, _, _)
UnionAll(start, polytopes, skip) ==
    IF polytopes = <<>> THEN start
    ELSE UnionAll(IF skip = 1 THEN start ELSE Union(start, Head(polytopes)),
                  Tail(polytopes), skip - 1)

\* The loop of lines 315-326, from `index` (1-based here) down to the first.
RECURSIVE TrimScanWrong(_, _, _)
TrimScanWrong(polytopes, fixed_polytope, index) ==
    IF index < 1 THEN polytopes
    ELSE IF Contains(UnionAll(fixed_polytope, polytopes, index), polytopes[index])
    THEN TrimScanWrong(SubSeq(polytopes, 1, index - 1)
                           \o SubSeq(polytopes, index + 1, Len(polytopes)),
                       fixed_polytope, index - 2)
    ELSE TrimScanWrong(polytopes, fixed_polytope, index - 1)

RECURSIVE TrimScan(_, _, _)
TrimScan(polytopes, fixed_polytope, index) ==
    IF index < 1 THEN polytopes
    ELSE IF Contains(UnionAll(fixed_polytope, polytopes, index), polytopes[index])
    THEN TrimScan(SubSeq(polytopes, 1, index - 1)
                      \o SubSeq(polytopes, index + 1, Len(polytopes)),
                  fixed_polytope, index - 1)
    ELSE TrimScan(polytopes, fixed_polytope, index - 1)

trim_polytope_set(trimmable, fixed) ==
    LET sorted == SortedByVolume(trimmable, Len(trimmable))
    IN TrimScan(sorted, UnionAll(<<>>, fixed, 0), Len(sorted))

(***************************************************************************)
(* Polytope objects with their memo cells                                  *)
(***************************************************************************)
\* An empty memo cell for vertices (no region has this vertex list).
NoVertices == << {<<-1, -1>>} >>

\* A Polytope instance: its field and the cells of its memoized properties.
Polytope(cs) ==
    [convex_subpolytopes |-> cs, _volume |-> None, _vertices |-> NoVertices]

\* memoized_property: the cell when it is filled, else the computed value.
MemoizedVolume(obj) ==
    IF obj._volume # None THEN obj._volume ELSE Volume(obj.convex_subpolytopes)
MemoizedVertices(obj) ==
    IF obj._vertices # NoVertices THEN obj._vertices
    ELSE Vertices(obj.convex_subpolytopes)

\* clear_memoization
clear_memoization(obj) ==
    [obj EXCEPT !._volume = None, !._vertices = NoVertices]

\* copy(self): a new instance with the same attributes, memo cells included.
copy(obj) == obj

\* backend.reduce: the same region with irredundant inequalities.
BackendReduce(cp) == Box(XLo(cp), XHi(cp), YLo(cp), YHi(cp))

\* Polytope.reduce, lines 201-208: the feasible components, reduced, each
\* wrapped in a Polytope of its own.
RECURSIVE IndependentPolytopes(_)
IndependentPolytopes(cs) ==
    IF cs = <<>> THEN <<>>
    ELSE (IF Feasible(Head(cs)) THEN << <<BackendReduce(Head(cs))>> >> ELSE <<>>)
         \o IndependentPolytopes(Tail(cs))

\* Polytope.reduce
PolytopeReduce(self) ==
    LET independent_polytopes ==
            trim_polytope_set(IndependentPolytopes(self.convex_subpolytopes), <<>>)
    IN [copy(self) EXCEPT !.convex_subpolytopes =
            [k \in 1..Len(independent_polytopes) |-> independent_polytopes[k][1]]]

\* Polytope.union
PolytopeUnion(self, other) ==
    clear_memoization(
        [copy(self) EXCEPT !.convex_subpolytopes =
            Union(self.convex_subpolytopes, other.convex_subpolytopes)])

\* Polytope.intersect
PolytopeIntersect(self, other) ==
    clear_memoization(
        [copy(self) EXCEPT !.convex_subpolytopes =
            Intersect(self.convex_subpolytopes, other.convex_subpolytopes)])

\* Set inclusion, decided on the grid: the unit pieces of a region.
Dimension(cp) == ConvexVolume(cp).dimension
PiecesOf(cp) ==
    {p \in Pieces(Dimension(cp)) : Covers(cp, p[1], p[2], p[3], p[4])}
CoveredBy(cs, p) == \E k \in 1..Len(cs) : Covers(cs[k], p[1], p[2], p[3], p[4])
RegionSubset(little, big) ==
    \A k \in 1..Len(little) : \A p \in PiecesOf(little[k]) : CoveredBy(big, p)

(***************************************************************************)
(* Path decomposition (xx_decompose/paths.py)                              *)
(*                                                                         *)
(* The toy alcove is the segment [0, MaxPoint] with the identity at 0;     *)
(* operation k moves a point up by at most k.  A constraint of a           *)
(* scipy_coverage_set entry is <<c0, c1, c4>>, standing for                *)
(* c0 + c1*source + c4*target >= 0: one free coordinate and one target     *)
(* coordinate where the source has three and three.                        *)
(***************************************************************************)
Identity == 0
Points == 0..MaxPoint
Operations == 1..MaxOperation
OperationSequences == SeqsUpTo(Operations, MaxOperations)

RECURSIVE Strength(_)
Strength(operations) ==
    IF operations = <<>> THEN 0 ELSE Head(operations) + Strength(Tail(operations))

\* The region reachable from the identity by `operations` is [0, Hi].
Hi(operations) == Min({MaxPoint, Strength(operations)})

\* An entry of coverage_set: constraints <<c0, c1>> on the target alone.
CircuitPolytope(operations, cost) ==
    [operations |-> operations,
     cost |-> cost,
     convex_subpolytopes |-> << [inequalities |-> << <<0, 1>>, <<Hi(operations), -1>> >>] >>]

\* calculate_scipy_coverage_set: the same entry with the source of its last
\* operation as the free coordinate.
ScipyPolytope(entry) ==
    LET operations == entry.operations
        n == Len(operations)
    IN [operations |-> operations,
        cost |-> entry.cost,
        convex_subpolytopes |->
            IF n = 0
            THEN << [inequalities |-> << <<0, 1, 0>>, <<0, -1, 0>>,
                                         <<0, 0, 1>>, <<0, 0, -1>> >>] >>
            ELSE << [inequalities |->
                       << <<0, 1, 0>>,
                          <<Hi(SubSeq(operations, 1, n - 1)), -1, 0>>,
                          <<0, -1, 1>>,
                          <<operations[n], 1, -1>> >>] >>]

calculate_scipy_coverage_set(coverage) ==
    [k \in 1..Len(coverage) |-> ScipyPolytope(coverage[k])]

\* polyhedron_has_element(polytope, point)
polyhedron_has_element(polytope, point) ==
    \E k \in 1..Len(polytope.convex_subpolytopes) :
        LET ineqs == polytope.convex_subpolytopes[k].inequalities
        IN \A j \in 1..Len(ineqs) : ineqs[j][1] + ineqs[j][2] * point >= 0

\* Counter(a) == Counter(b)
Count(operations, op) ==
    Cardinality({k \in 1..Len(operations) : operations[k] = op})
SameCounter(a, b) == \A op \in Operations : Count(a, op) = Count(b, op)

\* Lines 57-71: the ancestor's components with the target folded into the
\* constant term, constraints <<c0 + c4*target, c1>> on the source alone.
Backsolution(ancestor, point) ==
    [k \in 1..Len(ancestor.convex_subpolytopes) |->
        [inequalities |->
            [j \in 1..Len(ancestor.convex_subpolytopes[k].inequalities) |->
                LET ineq == ancestor.convex_subpolytopes[k].inequalities[j]
                IN <<ineq[1] + ineq[3] * point, ineq[2]>>]]]

\* backsolution_polytope when the ancestor at `index` is tried: it is created
\* once, before the loop, and every matching ancestor adds its components.
RECURSIVE backsolution_polytope(_, _, _, _)
backsolution_polytope(scipy, working_operations, point, index) ==
    IF index = 0 THEN <<>>
    ELSE backsolution_polytope(scipy, working_operations, point, index - 1)
         \o (IF SameCounter(scipy[index].operations, working_operations)
             THEN Backsolution(scipy[index], point) ELSE <<>>)

\* The vertices manual_get_random_vertex may return: the end points of the
\* feasible components.
SourcesOf(cp) ==
    {x \in Points : \A j \in 1..Len(cp.inequalities) :
                        cp.inequalities[j][1] + cp.inequalities[j][2] * x >= 0}
RandomVertices(polytope) ==
    UNION {{Min(SourcesOf(polytope[k])), Max(SourcesOf(polytope[k]))} :
              k \in {j \in 1..Len(polytope) : SourcesOf(polytope[j]) # {}}}

\* Lines 78-82: what the hop returns when the ancestor at `index` gave `solution`.
HopResultWrong(ancestor, solution, point) ==
    [hop |-> <<solution, ancestor.operations[1], point>>,
     ancestor |-> solution,
     operations_remaining |-> SubSeq(ancestor.operations, 1, Len(ancestor.operations) - 1)]

HopResult(ancestor, solution, point) ==
    [hop |-> <<solution, ancestor.operations[Len(ancestor.operations)], point>>,
     ancestor |-> solution,
     operations_remaining |-> SubSeq(ancestor.operations, 1, Len(ancestor.operations) - 1)]

\* single_unordered_decomposition_hop: the ancestors it can return from, each
\* with the vertices the extraction can give.  An extraction may fail for
\* numerical reasons, so every earlier ancestor may have been passed over.
HopChoices(scipy, working_operations, point) ==
    {c \in (1..Len(scipy)) \X Points :
        /\ SameCounter(scipy[c[1]].operations, working_operations)
        /\ c[2] \in RandomVertices(
                        backsolution_polytope(scipy, working_operations, point, c[1]))}

\* Lines 116-120: the scan for the working polytope (0 stands for None).
Infinity == MaxCost + 1

RECURSIVE ScanWrong(_, _, _, _, _)
ScanWrong(coverage, point, index, best_cost, working) ==
    IF index > Len(coverage) THEN working
    ELSE IF working = 0 /\ polyhedron_has_element(coverage[index], point)
    THEN ScanWrong(coverage, point, index + 1, coverage[index].cost, index)
    ELSE ScanWrong(coverage, point, index + 1, best_cost, working)

RECURSIVE Scan(_, _, _, _, _)
Scan(coverage, point, index, best_cost, working) ==
    IF index > Len(coverage) THEN working
    ELSE IF coverage[index].cost < best_cost
            /\ polyhedron_has_element(coverage[index], point)
    THEN Scan(coverage, point, index + 1, coverage[index].cost, index)
    ELSE Scan(coverage, point, index + 1, best_cost, working)

\* Lines 122-123: where decompose goes once the scan is over.
AfterScanWrong(working) == "loop"

AfterScan(working) == IF working = 0 THEN "ValueError" ELSE "loop"

\* decomposition.insert(0, hop)
PushWrong(hops, hop) == Append(hops, hop)

Push(hops, hop) == <<hop>> \o hops

(***************************************************************************)
(* Idle values: the variables of the operations a specification leaves out *)
(***************************************************************************)
Ready == "ready"

ArithIdle ==
    /\ pv_a = None /\ pv_b = None /\ pv_op = Idle /\ pv_out = None

VolumeIdle ==
    /\ convex_subpolytopes = <<>> /\ volume_pc = Idle /\ volume_out = None

ContainsIdle ==
    /\ ct_self = EmptyRegion /\ ct_other = EmptyRegion
    /\ ct_op = Idle /\ ct_out = FALSE

TrimIdle ==
    /\ trimmable_polytopes = <<>> /\ fixed_polytopes = <<>>
    /\ trim_pc = Idle /\ trim_out = <<>> /\ trim_again = <<>>

NoResult == << <<-1, -1, -1>> >>

PathIdle ==
    /\ coverage_set = <<>> /\ scipy_coverage_set = <<>> /\ requested = Identity
    /\ target = Identity /\ working_polytope = 0 /\ operations_remaining = <<>>
    /\ decomposition = <<>> /\ ancestors = <<>> /\ pc = Idle /\ result = NoResult

CacheIdle ==
    /\ poly_self = Polytope(<<>>) /\ poly_other = Polytope(<<>>)
    /\ cache_op = Idle /\ poly_clone = Polytope(<<>>)
    /\ seen_volume = None /\ seen_vertices = NoVertices

(***************************************************************************)
(* Specification SpecArith: PolytopeVolume arithmetic                      *)
(***************************************************************************)
PolytopeVolumes ==
    {PolytopeVolume(d, v) : d \in 0..MaxDimension, v \in (-MaxMagnitude)..MaxMagnitude}

ArithInit ==
    /\ pv_a \in PolytopeVolumes
    /\ pv_b \in PolytopeVolumes
    /\ pv_op = Ready
    /\ pv_out = None
    /\ VolumeIdle /\ ContainsIdle /\ TrimIdle /\ CacheIdle /\ PathIdle

\* A + B
DoAdd ==
    /\ pv_op = Ready
    /\ pv_op' = "add"
    /\ pv_out' = Add(pv_a, pv_b)
    /\ UNCHANGED <<pv_a, pv_b, volumeVars, containsVars, trimVars, cacheVars, pathVars>>

\* A - B
DoSub ==
    /\ pv_op = Ready
    /\ pv_op' = "sub"
    /\ pv_out' = Sub(pv_a, pv_b)
    /\ UNCHANGED <<pv_a, pv_b, volumeVars, containsVars, trimVars, cacheVars, pathVars>>

ArithNext == DoAdd \/ DoSub

SpecArith == ArithInit /\ [][ArithNext]_vars

(***************************************************************************)
(* Specification SpecVolume: Polytope.volume on a list of components       *)
(***************************************************************************)
ComponentLists == SeqsUpTo(Shapes, MaxComponents)

VolumeInit ==
    /\ convex_subpolytopes \in ComponentLists
    /\ volume_pc = Ready
    /\ volume_out = None
    /\ ArithIdle /\ ContainsIdle /\ TrimIdle /\ CacheIdle /\ PathIdle

\* Reading Polytope(convex_subpolytopes).volume
ReadVolume ==
    /\ volume_pc = Ready
    /\ volume_pc' = "read"
    /\ volume_out' = Volume(convex_subpolytopes)
    /\ UNCHANGED <<convex_subpolytopes, arithVars, containsVars, trimVars, cacheVars, pathVars>>

VolumeNext == ReadVolume

SpecVolume == VolumeInit /\ [][VolumeNext]_vars

(***************************************************************************)
(* Specification SpecContains: contains on two convex regions              *)
(***************************************************************************)
ContainsInit ==
    /\ ct_self \in Shapes
    /\ ct_other \in Shapes
    /\ ct_op = Ready
    /\ ct_out = FALSE
    /\ ArithIdle /\ VolumeIdle /\ TrimIdle /\ CacheIdle /\ PathIdle

\* self.contains(other) on ConvexPolytope
CallConvexContains ==
    /\ ct_op = Ready
    /\ ct_op' = "ConvexPolytope.contains"
    /\ ct_out' = ConvexContains(ct_self, ct_other)
    /\ UNCHANGED <<ct_self, ct_other, arithVars, volumeVars, trimVars, cacheVars, pathVars>>

\* self.contains(other) on the single-component Polytopes of the two regions
CallPolytopeContains ==
    /\ ct_op = Ready
    /\ ct_op' = "Polytope.contains"
    /\ ct_out' = Contains(<<ct_self>>, <<ct_other>>)
    /\ UNCHANGED <<ct_self, ct_other, arithVars, volumeVars, trimVars, cacheVars, pathVars>>

ContainsNext == CallConvexContains \/ CallPolytopeContains

SpecContains == ContainsInit /\ [][ContainsNext]_vars

(***************************************************************************)
(* Specification SpecTrim: trim_polytope_set, called and called again      *)
(***************************************************************************)
\* Boxes of full height and positive width over [0, TrimGridX] (the unit
\* squares among them).
TallShapes ==
    {Box(c[1], c[2], 0, GridY) :
        c \in {e \in (0..TrimGridX) \X (0..TrimGridX) : e[1] < e[2]}}

\* Boxes over [0, SmallGridX] standing on the bottom edge, flat or of full height.
SmallShapes ==
    {Box(c[1], c[2], 0, c[3]) :
        c \in {e \in (0..SmallGridX) \X (0..SmallGridX) \X {0, GridY} : e[1] <= e[2]}}
    \cup {EmptyRegion}

\* Convex candidates with at most one convex context polytope, or candidates
\* of up to MaxParts components of mixed dimension.
ConvexCandidates == {<<shape>> : shape \in TallShapes}
MixedCandidates == SeqsUpTo(SmallShapes, MaxParts) \ {<<>>}

TrimInit ==
    /\ \/ /\ trimmable_polytopes \in SeqsUpTo(ConvexCandidates, MaxCandidates)
          /\ fixed_polytopes \in SeqsUpTo(ConvexCandidates, 1)
       \/ /\ trimmable_polytopes \in SeqsUpTo(MixedCandidates, MaxMixedCandidates)
          /\ fixed_polytopes = <<>>
    /\ trim_pc = Ready
    /\ trim_out = <<>>
    /\ trim_again = <<>>
    /\ ArithIdle /\ VolumeIdle /\ ContainsIdle /\ CacheIdle /\ PathIdle

\* trim_polytope_set(trimmable_polytopes, fixed_polytopes)
Trim ==
    /\ trim_pc = Ready
    /\ trim_pc' = "trimmed"
    /\ trim_out' = trim_polytope_set(trimmable_polytopes, fixed_polytopes)
    /\ UNCHANGED <<trimmable_polytopes, fixed_polytopes, trim_again,
                   arithVars, volumeVars, containsVars, cacheVars, pathVars>>

\* trim_polytope_set(trim_out, fixed_polytopes)
TrimAgain ==
    /\ trim_pc = "trimmed"
    /\ trim_pc' = "retrimmed"
    /\ trim_again' = trim_polytope_set(trim_out, fixed_polytopes)
    /\ UNCHANGED <<trimmable_polytopes, fixed_polytopes, trim_out,
                   arithVars, volumeVars, containsVars, cacheVars, pathVars>>

TrimNext == Trim \/ TrimAgain

SpecTrim == TrimInit /\ [][TrimNext]_vars

(***************************************************************************)
(* Specification SpecCache: memoized reads around union, intersect, reduce *)
(***************************************************************************)
CacheInit ==
    /\ poly_self \in {Polytope(cs) : cs \in SeqsUpTo(SmallShapes, MaxParts)}
    /\ poly_other \in {Polytope(cs) : cs \in SeqsUpTo(SmallShapes, 1)}
    /\ cache_op = Ready
    /\ poly_clone = Polytope(<<>>)
    /\ seen_volume = None
    /\ seen_vertices = NoVertices
    /\ ArithIdle /\ VolumeIdle /\ ContainsIdle /\ TrimIdle /\ PathIdle

\* Reading self.volume before the call fills the operand's memo cell.
ReadOperandVolume ==
    /\ cache_op = Ready
    /\ poly_self._volume = None
    /\ poly_self' = [poly_self EXCEPT !._volume = MemoizedVolume(poly_self)]
    /\ UNCHANGED <<poly_other, cache_op, poly_clone, seen_volume, seen_vertices,
                   arithVars, volumeVars, containsVars, trimVars, pathVars>>

\* Reading self.vertices before the call fills the operand's memo cell.
ReadOperandVertices ==
    /\ cache_op = Ready
    /\ poly_self._vertices = NoVertices
    /\ poly_self' = [poly_self EXCEPT !._vertices = MemoizedVertices(poly_self)]
    /\ UNCHANGED <<poly_other, cache_op, poly_clone, seen_volume, seen_vertices,
                   arithVars, volumeVars, containsVars, trimVars, pathVars>>

CallUnion ==
    /\ cache_op = Ready
    /\ cache_op' = "union"
    /\ poly_clone' = PolytopeUnion(poly_self, poly_other)
    /\ UNCHANGED <<poly_self, poly_other, seen_volume, seen_vertices,
                   arithVars, volumeVars, containsVars, trimVars, pathVars>>

CallIntersect ==
    /\ cache_op = Ready
    /\ cache_op' = "intersect"
    /\ poly_clone' = PolytopeIntersect(poly_self, poly_other)
    /\ UNCHANGED <<poly_self, poly_other, seen_volume, seen_vertices,
                   arithVars, volumeVars, containsVars, trimVars, pathVars>>

CallReduce ==
    /\ cache_op = Ready
    /\ cache_op' = "reduce"
    /\ poly_clone' = PolytopeReduce(poly_self)
    /\ UNCHANGED <<poly_self, poly_other, seen_volume, seen_vertices,
                   arithVars, volumeVars, containsVars, trimVars, pathVars>>

\* Reading volume on the returned Polytope.
ReadReturnedVolume ==
    /\ cache_op \in {"union", "intersect", "reduce"}
    /\ seen_volume = None
    /\ seen_volume' = MemoizedVolume(poly_clone)
    /\ poly_clone' = [poly_clone EXCEPT !._volume = MemoizedVolume(poly_clone)]
    /\ UNCHANGED <<poly_self, poly_other, cache_op, seen_vertices,
                   arithVars, volumeVars, containsVars, trimVars, pathVars>>

\* Reading vertices on the returned Polytope.
ReadReturnedVertices ==
    /\ cache_op \in {"union", "intersect", "reduce"}
    /\ seen_vertices = NoVertices
    /\ seen_vertices' = MemoizedVertices(poly_clone)
    /\ poly_clone' = [poly_clone EXCEPT !._vertices = MemoizedVertices(poly_clone)]
    /\ UNCHANGED <<poly_self, poly_other, cache_op, seen_volume,
                   arithVars, volumeVars, containsVars, trimVars, pathVars>>

CacheNext ==
    \/ ReadOperandVolume \/ ReadOperandVertices
    \/ CallUnion \/ CallIntersect \/ CallReduce
    \/ ReadReturnedVolume \/ ReadReturnedVertices

SpecCache == CacheInit /\ [][CacheNext]_vars

(***************************************************************************)
(* Specification SpecPath: scipy_unordered_decomposition_hops              *)
(***************************************************************************)
Entries ==
    {CircuitPolytope(operations, cost) :
        operations \in OperationSequences, cost \in 1..MaxCost}

PathInit ==
    /\ coverage_set \in SeqsUpTo(Entries, MaxEntries)
    /\ scipy_coverage_set = calculate_scipy_coverage_set(coverage_set)
    /\ requested \in Points
    /\ target = requested
    /\ working_polytope = 0
    /\ operations_remaining = <<>>
    /\ decomposition = <<>>
    /\ ancestors = <<>>
    /\ pc = Ready
    /\ result = NoResult
    /\ ArithIdle /\ VolumeIdle /\ ContainsIdle /\ TrimIdle /\ CacheIdle

\* Lines 112-125: pick the working polytope or raise ValueError.
Select ==
    /\ pc = Ready
    /\ LET working == Scan(coverage_set, target, 1, Infinity, 0)
       IN /\ working_polytope' = working
          /\ pc' = AfterScan(working)
          /\ operations_remaining' =
                IF working = 0 THEN <<>> ELSE coverage_set[working].operations
    /\ UNCHANGED <<coverage_set, scipy_coverage_set, requested, target,
                   decomposition, ancestors, result,
                   arithVars, volumeVars, containsVars, trimVars, cacheVars>>

\* Lines 128-136: one turn of the loop whose hop returns.
Hop ==
    /\ pc = "loop"
    /\ 0 < Len(operations_remaining)
    /\ \E c \in HopChoices(scipy_coverage_set, operations_remaining, target) :
          LET r == HopResult(scipy_coverage_set[c[1]], c[2], target)
          IN /\ target' = r.ancestor
             /\ operations_remaining' = r.operations_remaining
             /\ decomposition' = Push(decomposition, r.hop)
             /\ ancestors' = <<c[1]>> \o ancestors
    /\ UNCHANGED <<coverage_set, scipy_coverage_set, requested, working_polytope,
                   pc, result,
                   arithVars, volumeVars, containsVars, trimVars, cacheVars>>

\* Lines 128-134 and 86: one turn of the loop whose hop raises NoBacksolution,
\* no ancestor having matched or every extraction having failed.
HopFails ==
    /\ pc = "loop"
    /\ 0 < Len(operations_remaining)
    /\ pc' = "NoBacksolution"
    /\ UNCHANGED <<coverage_set, scipy_coverage_set, requested, target,
                   working_polytope, operations_remaining, decomposition,
                   ancestors, result,
                   arithVars, volumeVars, containsVars, trimVars, cacheVars>>

\* Line 138: return decomposition.
Return ==
    /\ pc = "loop"
    /\ Len(operations_remaining) = 0
    /\ pc' = "returned"
    /\ result' = decomposition
    /\ UNCHANGED <<coverage_set, scipy_coverage_set, requested, target,
                   working_polytope, operations_remaining, decomposition,
                   ancestors,
                   arithVars, volumeVars, containsVars, trimVars, cacheVars>>

PathNext == Select \/ Hop \/ HopFails \/ Return

SpecPath == PathInit /\ [][PathNext]_vars

C2_ChainValid ==
    (pc = "returned" /\ result # <<>>) =>
        /\ result[1][1] = Identity
        /\ \A k \in 1..(Len(result) - 1) : result[k][3] = result[k + 1][1]
        /\ result[Len(result)][3] = requested

\* Two hops were returned for a target away from the identity.
C2_Witness ==
    /\ pc = "returned"
    /\ Len(result) = 2
    /\ requested = 2
    /\ result[1][3] = 1

(***************************************************************************)
(* C3                                                                      *)
(***************************************************************************)
Containing == {k \in 1..Len(coverage_set) :
                  polyhedron_has_element(coverage_set[k], requested)}

\* C3: the hop loop is driven from the coverage_set entry of minimum cost among
\* those containing the target, the earliest of them when costs are equal,
\* wherever the entries stand in coverage_set.
C3_MinimumCost ==
    pc \in {"loop", "returned", "NoBacksolution"} =>
        /\ working_polytope \in Containing
        /\ \A k \in Containing :
              /\ coverage_set[working_polytope].cost <= coverage_set[k].cost
              /\ coverage_set[k].cost = coverage_set[working_polytope].cost
                    => working_polytope <= k
        /\ (pc = "loop" /\ decomposition = <<>>)
              => operations_remaining = coverage_set[working_polytope].operations

\* The entry chosen stands after a dearer entry that also contains the target.
C3_Witness ==
    /\ pc = "loop"
    /\ \E k \in Containing :
          k < working_polytope
          /\ coverage_set[k].cost > coverage_set[working_polytope].cost

(***************************************************************************)
(* C4                                                                      *)
(***************************************************************************)
C4_State ==
    /\ pc = "ValueError" =>
          /\ Containing = {}
          /\ decomposition = <<>> /\ ancestors = <<>>
          /\ result = NoResult
    /\ (pc \notin {Idle, Ready} /\ Containing = {}) => pc = "ValueError"
    /\ pc = "NoBacksolution" => result = NoResult
    /\ result # NoResult =>
          /\ pc = "returned"
          /\ operations_remaining = <<>>
          /\ Len(result) = Len(coverage_set[working_polytope].operations)

C4_Step ==
    (/\ pc = "loop"
     /\ operations_remaining # <<>>
     /\ HopChoices(scipy_coverage_set, operations_remaining, target) = {})
    => (pc' = "NoBacksolution" /\ result' = NoResult)

\* C4: decompose returns nothing in place of a failure: with no coverage_set
\* entry containing the target it raises ValueError before any hop, and at a
\* hop where no matching scipy_coverage_set entry yields a vertex (none matching
\* included) it raises NoBacksolution and the triples gathered are not returned.
C4_FailsLoudly == []C4_State /\ [][C4_Step]_vars

\* NoBacksolution was raised after a first hop, at a hop that no entry matched.
C4_Witness ==
    /\ pc = "NoBacksolution"
    /\ Len(decomposition) = 1
    /\ HopChoices(scipy_coverage_set, operations_remaining, target) = {}
    /\ result = NoResult

(***************************************************************************)
(* C5                                                                      *)
(***************************************************************************)
OperationsOf(hops) == [k \in 1..Len(hops) |-> hops[k][2]]

C5_State ==
    pc = "returned" =>
        LET selected == coverage_set[working_polytope].operations
        IN /\ Len(result) = Len(selected)
           /\ SameCounter(OperationsOf(result), selected)
           /\ (/\ selected = <<1, 2>>
               /\ \A k \in 1..Len(scipy_coverage_set) :
                     SameCounter(scipy_coverage_set[k].operations, selected)
                        => scipy_coverage_set[k].operations = selected)
              => OperationsOf(result) = <<1, 2>>

C5_Step ==
    (pc = "loop" /\ decomposition' # decomposition) =>
        /\ Len(operations_remaining') = Len(operations_remaining) - 1
        /\ Len(decomposition') = Len(decomposition) + 1

C6_NoStaleCache ==
    cache_op \in {"union", "intersect", "reduce"} =>
        /\ seen_volume # None => seen_volume = Volume(poly_clone.convex_subpolytopes)
        /\ seen_vertices # NoVertices
              => seen_vertices = Vertices(poly_clone.convex_subpolytopes)

\* The same statement for union and intersect alone.
C6_UnionIntersectFresh ==
    cache_op \in {"union", "intersect"} => C6_NoStaleCache

(***************************************************************************)
(* C7                                                                      *)
(***************************************************************************)
\* The survivors other than the k-th, joined to the context polytopes.
Rest(polytopes, fixed, k) == UnionAll(UnionAll(<<>>, fixed, 0), polytopes, k)

CoveredCandidates ==
    {k \in 1..Len(trimmable_polytopes) :
        RegionSubset(trimmable_polytopes[k],
                     Rest(trimmable_polytopes, fixed_polytopes, k))}

Without(polytopes, k) ==
    SubSeq(polytopes, 1, k - 1) \o SubSeq(polytopes, k + 1, Len(polytopes))

\* C8: when exactly one candidate lies in the union of the other candidates
\* and the context, trim_polytope_set removes that candidate and keeps every
\* other one; for the unit squares [0,2], [2,4], [1,3] (x [0,1]) the output is
\* the first two in their original order.
C8_RemovesExactlyTheCovered ==
    (trim_pc \in {"trimmed", "retrimmed"} /\ Cardinality(CoveredCandidates) = 1) =>
        LET k == CHOOSE c \in CoveredCandidates : TRUE
            sorted == SortedByVolume(trimmable_polytopes, Len(trimmable_polytopes))
            at == CHOOSE j \in 1..Len(sorted) :
                      /\ sorted[j] = trimmable_polytopes[k]
                      /\ Cardinality({i \in 1..j : sorted[i] = sorted[j]})
                            = Cardinality({i \in 1..k : trimmable_polytopes[i]
                                                          = trimmable_polytopes[k]})
        IN /\ trim_out = Without(sorted, at)
           /\ trimmable_polytopes = << <<Box(0, 2, 0, 1)>>, <<Box(2, 4, 0, 1)>>,
                                       <<Box(1, 3, 0, 1)>> >>
              => trim_out = << <<Box(0, 2, 0, 1)>>, <<Box(2, 4, 0, 1)>> >>

\* The same statement for convex candidates only.
C8_ConvexCandidates ==
    (\A k \in 1..Len(trimmable_polytopes) : Len(trimmable_polytopes[k]) = 1)
        => C8_RemovesExactlyTheCovered

(***************************************************************************)
(* C9                                                                      *)
(***************************************************************************)
\* C9: A + B is the operand of strictly larger dimension, unchanged, when the
\* dimensions differ and {dimension, A.volume + B.volume} when they are equal;
\* A - B is A unchanged when A.dimension > B.dimension, {dimension,
\* A.volume - B.volume} when the dimensions are equal, and an error (no value)
\* when A.dimension < B.dimension.
C9_Arithmetic ==
    /\ pv_op = "add" =>
          /\ pv_a.dimension > pv_b.dimension => pv_out = pv_a
          /\ pv_a.dimension < pv_b.dimension => pv_out = pv_b
          /\ pv_a.dimension = pv_b.dimension =>
                pv_out = PolytopeVolume(pv_a.dimension, pv_a.volume + pv_b.volume)
    /\ pv_op = "sub" =>
          /\ pv_a.dimension > pv_b.dimension => pv_out = pv_a
          /\ pv_a.dimension = pv_b.dimension =>
                pv_out = PolytopeVolume(pv_a.dimension, pv_a.volume - pv_b.volume)
          /\ pv_a.dimension < pv_b.dimension => pv_out = ValueError

\* A lower-dimensional measure minus a higher-dimensional one has failed.
C9_Witness ==
    /\ pv_op = "sub"
    /\ pv_a.dimension < pv_b.dimension
    /\ pv_out = ValueError

(***************************************************************************)
(* C10                                                                     *)
(***************************************************************************)
\* Set inclusion of two convex regions, read off their bounds.
Inside(a, b) ==
    /\ Feasible(a) /\ Feasible(b)
    /\ XLo(b) <= XLo(a) /\ XHi(a) <= XHi(b)
    /\ YLo(b) <= YLo(a) /\ YHi(a) <= YHi(b)

BacksolutionRegion(ancestor, point) ==
    UNION {SourcesOf(Backsolution(ancestor, point)[k]) :
              k \in 1..Len(ancestor.convex_subpolytopes)}

\* The hops taken so far whose reported entry had an earlier entry with the
\* same operations (in any order) before it in scipy_coverage_set.
AfterEarlierMatch(k) ==
    \E j \in 1..(ancestors[k] - 1) :
        SameCounter(scipy_coverage_set[j].operations,
                    scipy_coverage_set[ancestors[k]].operations)

\* C11: the ancestor point of every hop lies in the backsolution region of the
\* entry whose last operation the hop reports and whose operations minus the
\* last are returned as operations_remaining, also when an earlier matching
\* entry was tried first and its extraction failed.
C11_SourceInReportedBacksolution ==
    \A k \in 1..Len(decomposition) :
        LET ancestor == scipy_coverage_set[ancestors[k]]
        IN /\ decomposition[k][2] = ancestor.operations[Len(ancestor.operations)]
           /\ decomposition[k][1] \in BacksolutionRegion(ancestor, decomposition[k][3])

\* The same statement for the hops returned from the first matching entry.
C11_FirstMatchingEntry ==
    \A k \in 1..Len(decomposition) :
        ~AfterEarlierMatch(k) =>
            decomposition[k][1] \in
                BacksolutionRegion(scipy_coverage_set[ancestors[k]], decomposition[k][3])

(***************************************************************************)
(* C12                                                                     *)
(***************************************************************************)
\* The union of the context polytopes and the candidates returned.
ContextAndOutput == UnionAll(UnionAll(<<>>, fixed_polytopes, 0), trim_out, 0)

\* The output is a subsequence of the candidates sorted by volume.
RECURSIVE IsSubsequence(_, _)
IsSubsequence(short, long) ==
    IF short = <<>> THEN TRUE
    ELSE IF long = <<>> THEN FALSE
    ELSE IF Head(short) = Head(long) THEN IsSubsequence(Tail(short), Tail(long))
    ELSE IsSubsequence(short, Tail(long))

\* C12: after trim_polytope_set every candidate, removed or kept, lies in the
\* union of the context polytopes and the surviving candidates, so a candidate
\* survives whenever the candidates are not all covered by the context; the
\* output holds candidates only, in the sorted order.
C12_CoveragePreserved ==
    trim_pc \in {"trimmed", "retrimmed"} =>
        /\ \A k \in 1..Len(trimmable_polytopes) :
              RegionSubset(trimmable_polytopes[k], ContextAndOutput)
        /\ IsSubsequence(trim_out, SortedByVolume(trimmable_polytopes,
                                                  Len(trimmable_polytopes)))

\* The same statement for convex candidates only.
C12_ConvexCandidates ==
    (\A k \in 1..Len(trimmable_polytopes) : Len(trimmable_polytopes[k]) = 1)
        => C12_CoveragePreserved

====
